---- MODULE Spec2Model ----
(***************************************************************************)
(* Model of the Google Docs tool servers of agentforce-mcp-demo:           *)
(*   src/src/auth-cloudrun.ts     credential resolution (authorize)        *)
(*   src/src/rest-api-wrapper.ts  REST facade, POST /api/mcp/call          *)
(*   src/src/server-http.ts       streaming (FastMCP) server, readGoogleDoc*)
(*                                                                         *)
(* One process runs one of the two entry points (variable server).  The    *)
(* process environment (two injected secrets) is chosen at start.  The two  *)
(* local files are chosen at start too; they change when the code writes   *)
(* token.json, and something outside the process may rewrite them between  *)
(* the two loads of one authorize() call (each load awaits fs.readFile).   *)
(* Node runs one continuation at a time and the dispatches share nothing   *)
(* but the cached clients, so the model follows one dispatch at a time,    *)
(* split at its await points (pc).                                         *)
(***************************************************************************)
EXTENDS Integers, Sequences, FiniteSets, TLC

VARIABLES
    server,       \* "rest" (rest-api-wrapper.ts) or "mcp" (server-http.ts)
    env,          \* process.env: GOOGLE_CREDENTIALS, GOOGLE_TOKEN
    files,        \* contents of credentials.json and token.json
    authClient,   \* module-level cache: the OAuth2 client
    googleDocs,   \* module-level cache: the Docs client
    googleDrive,  \* module-level cache: the Drive client
    phase,        \* "starting", "listening" or "exited"
    pc,           \* position of the dispatch in flight
    req,          \* the request of the dispatch in flight
    res,          \* REST: the HTTP response sent for it
    ret,          \* streaming server: how execute() ended
    log,          \* events of the dispatch in flight, in order
    calls,        \* upstream API calls issued by the dispatch in flight
    authLog,      \* effects of the most recent authorize() call
    rendering     \* the rendering call under way: function, input, output

vars == <<server, env, files, authClient, googleDocs, googleDrive, phase,
          pc, req, res, ret, log, calls, authLog, rendering>>

(***************************************************************************)
(* Credential sources.  A value is abstracted by how the code treats it:   *)
(*   "absent"   variable unset or empty / file missing                     *)
(*   "garbage"  present, JSON.parse throws                                 *)
(*   "nokey"    JSON object with neither an installed nor a web entry      *)
(*   "noid"     installed/web entry without client_id and client_secret    *)
(*   "ok"       well-formed                                                *)
(*   "saved"    token.json as written by saveCredentials                   *)
(***************************************************************************)
CredValues == {"absent", "garbage", "nokey", "noid", "ok"}
TokenValues == {"absent", "garbage", "ok"}

TOKEN_PATH == "token.json"
CREDENTIALS_PATH == "credentials.json"

\* JSON.parse(v) returns (does not throw)
Parses(v) == v \notin {"absent", "garbage"}

\* credentials.installed || credentials.web is truthy
HasKey(c) == c \in {"noid", "ok"}

NoData == [loaded |-> FALSE, credentials |-> "absent", token |-> "absent",
           source |-> "none"]

NullClient == [set |-> FALSE, source |-> "none", idSecret |-> FALSE,
               token |-> "none"]

\* process.env as the code reads it (auth-cloudrun.ts:30-31)
Environments == [GOOGLE_CREDENTIALS : CredValues, GOOGLE_TOKEN : TokenValues]

\* credentials.json and token.json (auth-cloudrun.ts:15-16)
FileSystems == [credentials : CredValues, token : TokenValues]

\* the inputs of one authorize() call that the process does not control
AuthInputs == [later        : FileSystems,\* the files at the loads after the first
               introspectOk : BOOLEAN,   \* client.getTokenInfo resolves
               exchangeOk   : BOOLEAN,   \* oAuth2Client.getToken(code) resolves
               refreshTok   : BOOLEAN,   \* tokens.refresh_token is present
               writeOk      : BOOLEAN]   \* fs.writeFile(TOKEN_PATH) resolves

\* auth-cloudrun.ts:41-52, the file branch of loadCredentialsFromEnvOrFile
loadFromFiles(f) ==
    IF f.credentials = "absent"
    THEN [data |-> NoData, reads |-> <<CREDENTIALS_PATH>>]
    ELSE IF f.token = "absent"
    THEN [data |-> NoData, reads |-> <<CREDENTIALS_PATH, TOKEN_PATH>>]
    ELSE IF Parses(f.credentials) /\ Parses(f.token)
    THEN [data |-> [loaded |-> TRUE, credentials |-> f.credentials,
                    token |-> f.token, source |-> "file"],
          reads |-> <<CREDENTIALS_PATH, TOKEN_PATH>>]
    ELSE [data |-> NoData, reads |-> <<CREDENTIALS_PATH, TOKEN_PATH>>]

\* a loader that consults the local files even when the injected secrets parse
loadFilesFirst(e, f) ==
    LET From(l) ==
          IF l.data.loaded THEN l
          ELSE IF /\ Parses(e.GOOGLE_CREDENTIALS)
                  /\ Parses(e.GOOGLE_TOKEN)
          THEN [data |-> [loaded |-> TRUE,
                          credentials |-> e.GOOGLE_CREDENTIALS,
                          token |-> e.GOOGLE_TOKEN, source |-> "env"],
                reads |-> l.reads]
          ELSE l
    IN From(loadFromFiles(f))

\* auth-cloudrun.ts:28-53.  reads lists the files handed to fs.readFile.
loadCredentialsFromEnvOrFile(e, f) ==
    IF /\ e.GOOGLE_CREDENTIALS # "absent"
       /\ e.GOOGLE_TOKEN # "absent"
       /\ Parses(e.GOOGLE_CREDENTIALS)
       /\ Parses(e.GOOGLE_TOKEN)
    THEN [data |-> [loaded |-> TRUE, credentials |-> e.GOOGLE_CREDENTIALS,
                    token |-> e.GOOGLE_TOKEN, source |-> "env"],
          reads |-> <<>>]
    ELSE \* not both set, or the parse threw and was only logged (36-38)
         loadFromFiles(f)

\* a loader for which a failed token introspection means no client
loadSavedIntrospectionFatal(e, f, in) ==
    LET From(l) ==
          IF ~l.data.loaded \/ ~HasKey(l.data.credentials) \/ ~in.introspectOk
          THEN [client |-> NullClient, reads |-> l.reads,
                validated |-> FALSE]
          ELSE [client |-> [set |-> TRUE, source |-> l.data.source,
                            idSecret |-> l.data.credentials = "ok",
                            token |-> l.data.token],
                reads |-> l.reads,
                validated |-> TRUE]
    IN From(loadCredentialsFromEnvOrFile(e, f))

\* auth-cloudrun.ts:55-89
loadSavedCredentialsIfExist(e, f, in) ==
    LET From(l) ==
          IF ~l.data.loaded
          THEN [client |-> NullClient, reads |-> l.reads,
                validated |-> FALSE]
          ELSE IF ~HasKey(l.data.credentials)
          THEN [client |-> NullClient, reads |-> l.reads,
                validated |-> FALSE]
          ELSE [client |-> [set |-> TRUE, source |-> l.data.source,
                            idSecret |-> l.data.credentials = "ok",
                            token |-> l.data.token],
                reads |-> l.reads,
                validated |-> in.introspectOk]
    IN From(loadCredentialsFromEnvOrFile(e, f))

\* a loader of the client secrets that needs the client config alone, from
\* the injected secret or else from credentials.json
loadClientSecretsConfigOnly(e, f) ==
    LET From(c, reads) ==
          IF ~Parses(c)
          THEN [ok |-> FALSE, reads |-> reads, idSecret |-> FALSE,
                err |-> "Could not load credentials from environment or files."]
          ELSE IF ~HasKey(c)
          THEN [ok |-> FALSE, reads |-> reads, idSecret |-> FALSE,
                err |-> "Could not find client secrets in credentials."]
          ELSE [ok |-> TRUE, reads |-> reads, idSecret |-> c = "ok",
                err |-> ""]
    IN IF Parses(e.GOOGLE_CREDENTIALS)
       THEN From(e.GOOGLE_CREDENTIALS, <<>>)
       ELSE From(f.credentials, <<CREDENTIALS_PATH>>)

\* auth-cloudrun.ts:91-107
loadClientSecrets(e, f) ==
    LET From(l) ==
          IF ~l.data.loaded
          THEN [ok |-> FALSE, reads |-> l.reads, idSecret |-> FALSE,
                err |-> "Could not load credentials from environment or files."]
          ELSE IF ~HasKey(l.data.credentials)
          THEN [ok |-> FALSE, reads |-> l.reads, idSecret |-> FALSE,
                err |-> "Could not find client secrets in credentials."]
          ELSE [ok |-> TRUE, reads |-> l.reads,
                idSecret |-> l.data.credentials = "ok", err |-> ""]
    IN From(loadCredentialsFromEnvOrFile(e, f))

\* auth-cloudrun.ts:109-129
saveCredentials(e, f, in) ==
    IF e.GOOGLE_CREDENTIALS # "absent"
    THEN [wrote |-> FALSE, reads |-> <<>>]
    ELSE LET From(s) == [wrote |-> s.ok /\ in.writeOk, reads |-> s.reads]
         IN From(loadClientSecrets(e, f))

\* auth-cloudrun.ts:131-169
authenticate(e, f, in) ==
    IF e.GOOGLE_CREDENTIALS # "absent"
    THEN [ok |-> FALSE, client |-> NullClient, reads |-> <<>>,
          prompted |-> FALSE, wrote |-> FALSE,
          err |-> "Cannot run interactive authentication in Cloud Run environment."]
    ELSE LET Saved(s, w) ==
               [ok |-> TRUE,
                client |-> [set |-> TRUE, source |-> "interactive",
                            idSecret |-> s.idSecret, token |-> "fresh"],
                reads |-> s.reads \o w.reads,
                prompted |-> TRUE, wrote |-> w.wrote, err |-> ""]
             From(s) ==
               IF ~s.ok
               THEN [ok |-> FALSE, client |-> NullClient, reads |-> s.reads,
                     prompted |-> FALSE, wrote |-> FALSE, err |-> s.err]
               ELSE IF ~in.exchangeOk
               THEN [ok |-> FALSE, client |-> NullClient, reads |-> s.reads,
                     prompted |-> TRUE, wrote |-> FALSE,
                     err |-> "Authentication failed"]
               ELSE Saved(s, IF in.refreshTok THEN saveCredentials(e, f, in)
                             ELSE [wrote |-> FALSE, reads |-> <<>>])
         IN From(loadClientSecrets(e, f))

\* saveCredentials without its Cloud Run check
saveCredentialsUnchecked(e, f, in) ==
    LET From(s) == [wrote |-> s.ok /\ in.writeOk, reads |-> s.reads]
    IN From(loadClientSecrets(e, f))

\* authenticate without its Cloud Run check, storing the token with Save
authenticateUnchecked(e, f, in, Save(_, _, _)) ==
    LET Saved(s, w) ==
          [ok |-> TRUE,
           client |-> [set |-> TRUE, source |-> "interactive",
                       idSecret |-> s.idSecret, token |-> "fresh"],
           reads |-> s.reads \o w.reads,
           prompted |-> TRUE, wrote |-> w.wrote, err |-> ""]
        From(s) ==
          IF ~s.ok
          THEN [ok |-> FALSE, client |-> NullClient, reads |-> s.reads,
                prompted |-> FALSE, wrote |-> FALSE, err |-> s.err]
          ELSE IF ~in.exchangeOk
          THEN [ok |-> FALSE, client |-> NullClient, reads |-> s.reads,
                prompted |-> TRUE, wrote |-> FALSE,
                err |-> "Authentication failed"]
          ELSE Saved(s, IF in.refreshTok THEN Save(e, f, in)
                        ELSE [wrote |-> FALSE, reads |-> <<>>])
    IN From(loadClientSecrets(e, f))

\* authorize that goes on to the authentication flow whenever no saved
\* client loads, whatever the mode
authorizeUnchecked(e, f, in, Save(_, _, _)) ==
    LET Interactive(saved, a) ==
          [ok |-> a.ok, client |-> a.client,
           reads |-> saved.reads \o a.reads,
           prompted |-> a.prompted, wrote |-> a.wrote, validated |-> FALSE,
           interactive |-> TRUE, err |-> a.err]
        From(saved) ==
          IF saved.client.set
          THEN [ok |-> TRUE, client |-> saved.client, reads |-> saved.reads,
                prompted |-> FALSE, wrote |-> FALSE,
                validated |-> saved.validated, interactive |-> FALSE,
                err |-> ""]
          ELSE Interactive(saved,
                           authenticateUnchecked(e, in.later, in, Save))
    IN From(loadSavedCredentialsIfExist(e, f, in))

\* the mode checks of authorize and authenticate left out
authorizePromptsAnyMode(e, f, in) ==
    authorizeUnchecked(e, f, in, saveCredentials)

\* the mode checks of authorize, authenticate and saveCredentials left out
authorizeSavesAnyMode(e, f, in) ==
    authorizeUnchecked(e, f, in, saveCredentialsUnchecked)

\* auth-cloudrun.ts:171-189
authorize(e, f, in) ==
    LET isCloudRun == e.GOOGLE_CREDENTIALS # "absent"
        Interactive(saved, a) ==
          [ok |-> a.ok, client |-> a.client,
           reads |-> saved.reads \o a.reads,
           prompted |-> a.prompted, wrote |-> a.wrote, validated |-> FALSE,
           interactive |-> TRUE, err |-> a.err]
        From(saved) ==
          IF saved.client.set
          THEN [ok |-> TRUE, client |-> saved.client, reads |-> saved.reads,
                prompted |-> FALSE, wrote |-> FALSE,
                validated |-> saved.validated, interactive |-> FALSE,
                err |-> ""]
          ELSE IF isCloudRun
          THEN [ok |-> FALSE, client |-> NullClient, reads |-> saved.reads,
                prompted |-> FALSE, wrote |-> FALSE, validated |-> FALSE,
                interactive |-> FALSE,
                err |-> "No valid credentials found in Cloud Run environment. Please check Secret Manager configuration."]
          ELSE Interactive(saved, authenticate(e, in.later, in))
    IN From(loadSavedCredentialsIfExist(e, f, in))

\* The files after an authorize() call: as the later loads found them when
\* authenticate() ran, with token.json rewritten by fs.writeFile
\* (auth-cloudrun.ts:124) when saveCredentials got that far.
FilesAfter(f, a, in) ==
    IF a.wrote THEN [in.later EXCEPT !.token = "saved"]
    ELSE IF a.interactive THEN in.later
    ELSE f

NoAuthLog == [called |-> FALSE, ok |-> FALSE, reads |-> <<>>,
              prompted |-> FALSE, wrote |-> FALSE, validated |-> FALSE,
              filesStatic |-> TRUE, source |-> "none", err |-> ""]

\* filesStatic: no load of the call saw other files than its first load did
AuthLogOf(a, f, in) ==
    [called |-> TRUE, ok |-> a.ok, reads |-> a.reads,
     prompted |-> a.prompted, wrote |-> a.wrote,
     validated |-> a.validated,
     filesStatic |-> (~a.interactive \/ in.later = f),
     source |-> a.client.source, err |-> a.err]

(***************************************************************************)
(* The cached clients and their initialization.                            *)
(***************************************************************************)
NullApi == [set |-> FALSE, auth |-> NullClient]

\* google.docs({auth}) / google.drive({auth}): an API client bound to a handle
ApiFor(c) == [set |-> TRUE, auth |-> c]

\* an initializer that resolves the credentials again on every call
RestInitializeUncached(in) ==
    LET From(a) ==
          IF a.ok
          THEN [ok |-> TRUE, authorized |-> TRUE,
                authClient |-> a.client,
                googleDocs |-> ApiFor(a.client),
                googleDrive |-> ApiFor(a.client),
                files |-> FilesAfter(files, a, in),
                authLog |-> AuthLogOf(a, files, in), err |-> ""]
          ELSE [ok |-> FALSE, authorized |-> TRUE,
                authClient |-> authClient,
                googleDocs |-> googleDocs, googleDrive |-> googleDrive,
                files |-> FilesAfter(files, a, in),
                authLog |-> AuthLogOf(a, files, in), err |-> a.err]
    IN From(authorize(env, files, in))

\* rest-api-wrapper.ts:21-35
RestInitializeGoogleClient(in) ==
    IF googleDocs.set /\ googleDrive.set
    THEN [ok |-> TRUE, authorized |-> FALSE, authClient |-> authClient,
          googleDocs |-> googleDocs, googleDrive |-> googleDrive,
          files |-> files, authLog |-> authLog, err |-> ""]
    ELSE LET From(a) ==
               IF a.ok
               THEN [ok |-> TRUE, authorized |-> TRUE,
                     authClient |-> a.client,
                     googleDocs |-> ApiFor(a.client),
                     googleDrive |-> ApiFor(a.client),
                     files |-> FilesAfter(files, a, in),
                     authLog |-> AuthLogOf(a, files, in), err |-> ""]
               ELSE [ok |-> FALSE, authorized |-> TRUE,
                     authClient |-> authClient,
                     googleDocs |-> googleDocs, googleDrive |-> googleDrive,
                     files |-> FilesAfter(files, a, in),
                     authLog |-> AuthLogOf(a, files, in), err |-> a.err]
         IN From(authorize(env, files, in))

\* server-http.ts:30-60
McpInitializeGoogleClient(in) ==
    IF googleDocs.set /\ googleDrive.set
    THEN [ok |-> TRUE, authorized |-> FALSE, authClient |-> authClient,
          googleDocs |-> googleDocs, googleDrive |-> googleDrive,
          files |-> files, authLog |-> authLog, err |-> ""]
    ELSE IF ~authClient.set
    THEN LET From(a) ==
               IF a.ok
               THEN [ok |-> TRUE, authorized |-> TRUE,
                     authClient |-> a.client,
                     googleDocs |-> ApiFor(a.client),
                     googleDrive |-> ApiFor(a.client),
                     files |-> FilesAfter(files, a, in),
                     authLog |-> AuthLogOf(a, files, in), err |-> ""]
               ELSE [ok |-> FALSE, authorized |-> TRUE,
                     authClient |-> NullClient,
                     googleDocs |-> NullApi, googleDrive |-> NullApi,
                     files |-> FilesAfter(files, a, in),
                     authLog |-> AuthLogOf(a, files, in),
                     err |-> "Google client initialization failed. Cannot start server tools."]
         IN From(authorize(env, files, in))
    ELSE [ok |-> TRUE, authorized |-> FALSE, authClient |-> authClient,
          googleDocs |-> IF googleDocs.set THEN googleDocs
                         ELSE ApiFor(authClient),
          googleDrive |-> IF googleDrive.set THEN googleDrive
                          ELSE ApiFor(authClient),
          files |-> files, authLog |-> authLog, err |-> ""]

(***************************************************************************)
(* Requests, upstream outcomes and responses.                              *)
(***************************************************************************)
Undefined == "undefined"

\* a JavaScript value that is falsy (!v)
Falsy(v) == v \in {Undefined, ""}

\* rest-api-wrapper.ts:139-160, the keys of the tools registry
ToolNames == {"getRecentGoogleDocs", "readGoogleDoc", "searchGoogleDocs",
              "createDocument"}

\* property names an object literal inherits from Object.prototype
ObjectPrototypeKeys == {"toString", "constructor"}

\* README.md:122-130, the tools of the "Available MCP Tools" table
ReadmeTools == {"readGoogleDoc", "createDocument", "appendToGoogleDoc",
                "searchGoogleDocs", "applyTextStyle", "insertTable",
                "listGoogleDocs"}

\* tool names a caller may send; "" stands for a missing toolName
RequestNames == ToolNames \cup ReadmeTools \cup {"", "noSuchTool", "toString"}

\* tools[toolName] (rest-api-wrapper.ts:212): own keys first, then the
\* prototype chain; anything else is undefined
Lookup(name) ==
    IF name \in ToolNames
    THEN [truthy |-> TRUE, registered |-> TRUE, hasExecute |-> TRUE]
    ELSE IF name \in ObjectPrototypeKeys
    THEN [truthy |-> TRUE, registered |-> FALSE, hasExecute |-> FALSE]
    ELSE [truthy |-> FALSE, registered |-> FALSE, hasExecute |-> FALSE]

NoArgs == [documentId |-> Undefined, searchQuery |-> Undefined,
           title |-> Undefined, query |-> Undefined, format |-> Undefined]

\* argument bags sent to POST /api/mcp/call
ArgBags == {NoArgs,
            [NoArgs EXCEPT !.documentId = "doc1"],
            [NoArgs EXCEPT !.searchQuery = "plan"],
            [NoArgs EXCEPT !.title = "Notes"],
            [NoArgs EXCEPT !.query = "plan"]}

\* argument bags that pass the readGoogleDoc schema of server-http.ts:239-243
McpArgBags == {[NoArgs EXCEPT !.documentId = "doc1", !.format = f] :
                  f \in {"text", "json", "markdown"}}

\* outcomes of one upstream API call: success, or an error with a code
UpstreamOutcomes ==
    {[code |-> 200, message |-> ""],
     [code |-> 403, message |-> "The caller does not have permission"],
     [code |-> 404, message |-> "Requested entity was not found."],
     [code |-> 503, message |-> "socket hang up"]}

Succeeded(out) == out.code = 200

\* what the upstream can answer to a tool's call: documents.get without a
\* document id has no document to return
OutcomesFor(name, args) ==
    IF name = "readGoogleDoc" /\ args.documentId = Undefined
    THEN {o \in UpstreamOutcomes : ~Succeeded(o)}
    ELSE UpstreamOutcomes

NoReq == [toolName |-> "", args |-> NoArgs]

NoRes == [sent |-> FALSE, status |-> 0, success |-> FALSE,
          hasData |-> FALSE, data |-> <<>>,
          hasError |-> FALSE, error |-> <<>>, hasStack |-> FALSE]

NoRet == [kind |-> "none", text |-> <<>>]

\* rest-api-wrapper.ts:209
RespondMissingName ==
    [sent |-> TRUE, status |-> 400, success |-> FALSE,
     hasData |-> FALSE, data |-> <<>>,
     hasError |-> TRUE, error |-> <<"toolName", " is required">>,
     hasStack |-> FALSE]

\* rest-api-wrapper.ts:214
RespondNotFound(name) ==
    [sent |-> TRUE, status |-> 404, success |-> FALSE,
     hasData |-> FALSE, data |-> <<>>,
     hasError |-> TRUE, error |-> <<"Tool '", name, "' not found">>,
     hasStack |-> FALSE]

\* rest-api-wrapper.ts:221
RespondSuccess(value) ==
    [sent |-> TRUE, status |-> 200, success |-> TRUE,
     hasData |-> TRUE, data |-> value,
     hasError |-> FALSE, error |-> <<>>, hasStack |-> FALSE]

\* a catch block that answers without the error's message
RespondCatchNoMessage(message) ==
    [sent |-> TRUE, status |-> 500, success |-> FALSE,
     hasData |-> FALSE, data |-> <<>>,
     hasError |-> FALSE, error |-> <<>>, hasStack |-> TRUE]

\* a catch block that also returns what the handler had produced so far
RespondCatchPartial(message) ==
    [sent |-> TRUE, status |-> 500, success |-> FALSE,
     hasData |-> TRUE, data |-> <<"partial">>,
     hasError |-> TRUE, error |-> message, hasStack |-> TRUE]

\* rest-api-wrapper.ts:222-225
RespondCatch(message) ==
    [sent |-> TRUE, status |-> 500, success |-> FALSE,
     hasData |-> FALSE, data |-> <<>>,
     hasError |-> TRUE, error |-> message, hasStack |-> TRUE]

(***************************************************************************)
(* Tool handlers of the REST facade.  A handler takes the argument bag and *)
(* the outcome of its upstream call and either returns a value or throws;  *)
(* calls lists the upstream calls it issued.                               *)
(***************************************************************************)
Returned(value, cs) ==
    [threw |-> FALSE, value |-> value, message |-> <<>>, calls |-> cs]

Threw(message, cs) ==
    [threw |-> TRUE, value |-> <<>>, message |-> message, calls |-> cs]

\* rest-api-wrapper.ts:38-63
getRecentGoogleDocs(args, out) ==
    LET cs == <<[api |-> "drive.files.list", arg |-> "modifiedTime",
                 code |-> out.code]>> IN
    IF Succeeded(out)
    THEN Returned(<<"Recently modified Google Document(s)">>, cs)
    ELSE Threw(<<"Failed to get recent docs: ", out.message>>, cs)

\* rest-api-wrapper.ts:65-89
readGoogleDoc(args, out) ==
    LET cs == <<[api |-> "docs.documents.get", arg |-> args.documentId,
                 code |-> out.code]>> IN
    IF Succeeded(out)
    THEN Returned(<<"Document Content:\n---\n", args.documentId>>, cs)
    ELSE Threw(<<"Failed to read document: ", out.message>>, cs)

\* rest-api-wrapper.ts:91-113
searchGoogleDocs(args, out) ==
    LET cs == <<[api |-> "drive.files.list", arg |-> args.searchQuery,
                 code |-> out.code]>> IN
    IF Succeeded(out)
    THEN Returned(<<"Search results for \"", args.searchQuery, "\":">>, cs)
    ELSE Threw(<<"Failed to search documents: ", out.message>>, cs)

\* rest-api-wrapper.ts:115-136
createDocument(args, out) ==
    IF Falsy(args.title)
    THEN Threw(<<"Failed to create document: ", "title", " is required">>,
               <<>>)
    ELSE LET cs == <<[api |-> "docs.documents.create", arg |-> args.title,
                      code |-> out.code]>>
         IN IF Succeeded(out)
            THEN Returned(<<"Created document: \"", args.title, "\"">>, cs)
            ELSE Threw(<<"Failed to create document: ", out.message>>, cs)

\* a handler that issues its upstream call again after a failure
ExecuteWithRetry(name, args, out) ==
    LET Again(h) ==
          IF h.threw THEN [h EXCEPT !.calls = h.calls \o h.calls] ELSE h
    IN Again(CASE name = "getRecentGoogleDocs" ->
                    getRecentGoogleDocs(args, out)
               [] name = "readGoogleDoc" -> readGoogleDoc(args, out)
               [] name = "searchGoogleDocs" -> searchGoogleDocs(args, out)
               [] OTHER -> createDocument(args, out))

\* tool.execute(toolArgs || {}) for a registered tool (rest-api-wrapper.ts:219)
Execute(name, args, out) ==
    CASE name = "getRecentGoogleDocs" -> getRecentGoogleDocs(args, out)
      [] name = "readGoogleDoc" -> readGoogleDoc(args, out)
      [] name = "searchGoogleDocs" -> searchGoogleDocs(args, out)
      [] OTHER -> createDocument(args, out)

\* server-http.ts:253-327, readGoogleDoc execute after it has its client
McpReadGoogleDoc(args, out) ==
    IF Succeeded(out)
    THEN [kind |-> "return", text |-> <<"Content", args.format>>]
    ELSE IF out.code = 404
    THEN [kind |-> "UserError",
          text |-> <<"Doc not found (ID: ", args.documentId, ").">>]
    ELSE IF out.code = 403
    THEN [kind |-> "UserError",
          text |-> <<"Permission denied for doc (ID: ", args.documentId, ").">>]
    ELSE [kind |-> "UserError",
          text |-> <<"Failed to read doc: ", out.message>>]

RepeatEvent(e, n) == [i \in 1..n |-> e]

(***************************************************************************)
(* Document rendering (server-http.ts:96-231).  A JavaScript string is the *)
(* sequence of its characters, each a one-character string, so that length,*)
(* substring and trim are computed on characters.  An optional field of    *)
(* the Docs API snapshot is a has... flag beside the field.                *)
(***************************************************************************)
IsSpace(c) == c \in {" ", "\n"}

RECURSIVE TrimStart(_)
TrimStart(s) ==
    IF s = <<>> THEN s
    ELSE IF IsSpace(Head(s)) THEN TrimStart(Tail(s))
    ELSE s

RECURSIVE TrimEnd(_)
TrimEnd(s) ==
    IF s = <<>> THEN s
    ELSE IF IsSpace(s[Len(s)]) THEN TrimEnd(SubSeq(s, 1, Len(s) - 1))
    ELSE s

\* String.prototype.trim
Trim(s) == TrimEnd(TrimStart(s))

\* s.replace(/\n/g, ' ')
ReplaceNewlines(s) == [i \in 1..Len(s) |-> IF s[i] = "\n" THEN " " ELSE s[i]]

\* a substring that stops one character early
SubstringShort(s, n) == SubSeq(s, 1, IF n < Len(s) THEN n - 1 ELSE Len(s))

\* s.substring(0, n) for n >= 0
Substring(s, n) == SubSeq(s, 1, IF n < Len(s) THEN n ELSE Len(s))

\* c.repeat(n)
Repeat(c, n) == [i \in 1..n |-> c]

\* the concatenation of a sequence of strings
RECURSIVE Flat(_)
Flat(ss) == IF ss = <<>> THEN <<>> ELSE Head(ss) \o Flat(Tail(ss))

\* the text of style.link.url in the snapshots of the model
LinkUrl == <<"u">>

\* an emphasis step that tests bold before it tests bold and italic together
EmphasisBoldFirst(style, text) ==
    IF style.bold THEN <<"*", "*">> \o text \o <<"*", "*">>
    ELSE IF style.bold /\ style.italic
    THEN <<"*", "*", "*">> \o text \o <<"*", "*", "*">>
    ELSE IF style.italic THEN <<"*">> \o text \o <<"*">>
    ELSE text

\* server-http.ts:166-172
Emphasis(style, text) ==
    IF style.bold /\ style.italic
    THEN <<"*", "*", "*">> \o text \o <<"*", "*", "*">>
    ELSE IF style.bold THEN <<"*", "*">> \o text \o <<"*", "*">>
    ELSE IF style.italic THEN <<"*">> \o text \o <<"*">>
    ELSE text

\* server-http.ts:174-176; style.link is truthy whenever the link is present
Underline(style, text) ==
    IF style.underline /\ style.link = "none"
    THEN <<"<", "u", ">">> \o text \o <<"<", "/", "u", ">">>
    ELSE text

\* server-http.ts:178-180
Strikethrough(style, text) ==
    IF style.strikethrough THEN <<"~", "~">> \o text \o <<"~", "~">>
    ELSE text

\* server-http.ts:182-184
Link(style, text) ==
    IF style.link = "url"
    THEN <<"[">> \o text \o <<"]", "(">> \o LinkUrl \o <<")">>
    ELSE text

\* a conversion that strikes the text through before it underlines it
convertTextRunStrikeFirst(textRun) ==
    LET text == IF textRun.hasContent THEN textRun.content ELSE <<>>
    IN IF textRun.hasStyle
       THEN Link(textRun.textStyle,
                 Underline(textRun.textStyle,
                           Strikethrough(textRun.textStyle,
                                         Emphasis(textRun.textStyle, text))))
       ELSE text

\* server-http.ts:160-188
convertTextRunToMarkdown(textRun) ==
    LET text == IF textRun.hasContent THEN textRun.content ELSE <<>>
    IN IF textRun.hasStyle
       THEN Link(textRun.textStyle,
                 Strikethrough(textRun.textStyle,
                               Underline(textRun.textStyle,
                                         Emphasis(textRun.textStyle, text))))
       ELSE text

\* the paragraph styles of the snapshots; "" stands for a paragraph without
\* paragraphStyle.namedStyleType
NamedStyleTypes == {"", "NORMAL_TEXT", "TITLE", "SUBTITLE", "HEADING_1",
                    "HEADING_2", "HEADING_3", "HEADING_4", "HEADING_5",
                    "HEADING_6", "HEADING_7"}

\* styleType.startsWith('HEADING_')
StartsWithHeading(styleType) ==
    styleType \in {"HEADING_1", "HEADING_2", "HEADING_3", "HEADING_4",
                   "HEADING_5", "HEADING_6", "HEADING_7"}

\* a level parser that counts the heading levels from 0
ParseHeadingLevelFromZero(styleType) ==
    CASE styleType = "HEADING_1" -> 0
      [] styleType = "HEADING_2" -> 1
      [] styleType = "HEADING_3" -> 2
      [] styleType = "HEADING_4" -> 3
      [] styleType = "HEADING_5" -> 4
      [] styleType = "HEADING_6" -> 5
      [] styleType = "HEADING_7" -> 6

\* parseInt(styleType.replace('HEADING_', ''))
ParseHeadingLevel(styleType) ==
    CASE styleType = "HEADING_1" -> 1
      [] styleType = "HEADING_2" -> 2
      [] styleType = "HEADING_3" -> 3
      [] styleType = "HEADING_4" -> 4
      [] styleType = "HEADING_5" -> 5
      [] styleType = "HEADING_6" -> 6
      [] styleType = "HEADING_7" -> 7

\* server-http.ts:140-146: the converted text runs of a paragraph, in order
RECURSIVE ParagraphText(_)
ParagraphText(elements) ==
    IF elements = <<>> THEN <<>>
    ELSE (IF Head(elements).hasTextRun
          THEN convertTextRunToMarkdown(Head(elements).textRun)
          ELSE <<>>) \o ParagraphText(Tail(elements))

\* server-http.ts:116-158
convertParagraphToMarkdown(paragraph) ==
    LET styleType == paragraph.namedStyleType
        isHeading == \/ StartsWithHeading(styleType)
                     \/ styleType \in {"TITLE", "SUBTITLE"}
        headingLevel == IF StartsWithHeading(styleType)
                        THEN ParseHeadingLevel(styleType)
                        ELSE IF styleType = "TITLE" THEN 1
                        ELSE IF styleType = "SUBTITLE" THEN 2
                        ELSE 0
        isList == paragraph.bullet
        Min(a, b) == IF a < b THEN a ELSE b
        From(trimmed) ==
          IF isHeading /\ trimmed # <<>>
          THEN Repeat("#", Min(headingLevel, 6)) \o <<" ">> \o trimmed
               \o <<"\n", "\n">>
          ELSE IF isList /\ trimmed # <<>>
          THEN <<"-", " ">> \o trimmed \o <<"\n">>
          ELSE IF trimmed # <<>>
          THEN trimmed \o <<"\n", "\n">>
          ELSE <<"\n">>
    IN From(Trim(IF paragraph.hasElements
                 THEN ParagraphText(paragraph.elements) ELSE <<>>))

\* server-http.ts:208-210, one element of a cell paragraph
RunCellText(pe) ==
    IF pe.hasTextRun /\ pe.textRun.hasContent /\ pe.textRun.content # <<>>
    THEN Trim(ReplaceNewlines(pe.textRun.content))
    ELSE <<>>

\* server-http.ts:206-212, one structural element of a cell
ElementCellText(element) ==
    IF element.kind = "paragraph" /\ element.paragraph.hasElements
    THEN Flat([i \in DOMAIN element.paragraph.elements |->
                 RunCellText(element.paragraph.elements[i])])
    ELSE <<>>

\* server-http.ts:203-214
CellText(cell) ==
    IF cell.hasContent
    THEN Flat([i \in DOMAIN cell.content |-> ElementCellText(cell.content[i])])
    ELSE <<>>

\* server-http.ts:201-216
RowText(tableCells) ==
    <<"|">> \o Flat([i \in DOMAIN tableCells |->
                       <<" ">> \o CellText(tableCells[i]) \o <<" ", "|">>])

\* server-http.ts:221-224
Separator(n) ==
    <<"|">> \o Flat([i \in 1..n |-> <<" ", "-", "-", "-", " ", "|">>])

\* a row loop that never clears isFirstRow
RECURSIVE TableRowsSeparatorEach(_, _)
TableRowsSeparatorEach(tableRows, isFirstRow) ==
    IF tableRows = <<>> THEN <<>>
    ELSE IF ~Head(tableRows).hasCells
    THEN TableRowsSeparatorEach(Tail(tableRows), isFirstRow)
    ELSE RowText(Head(tableRows).tableCells) \o <<"\n">>
         \o (IF isFirstRow
             THEN Separator(Len(Head(tableRows).tableCells)) \o <<"\n">>
             ELSE <<>>)
         \o TableRowsSeparatorEach(Tail(tableRows), isFirstRow)

\* server-http.ts:198-228, the loop over the rows from the one at the head
RECURSIVE TableRows(_, _)
TableRows(tableRows, isFirstRow) ==
    IF tableRows = <<>> THEN <<>>
    ELSE IF ~Head(tableRows).hasCells
    THEN TableRows(Tail(tableRows), isFirstRow)
    ELSE RowText(Head(tableRows).tableCells) \o <<"\n">>
         \o (IF isFirstRow
             THEN Separator(Len(Head(tableRows).tableCells)) \o <<"\n">>
             ELSE <<>>)
         \o TableRows(Tail(tableRows), FALSE)

\* server-http.ts:190-231
convertTableToMarkdown(table) ==
    IF ~table.hasRows \/ table.tableRows = <<>>
    THEN <<>>
    ELSE <<"\n">> \o TableRows(table.tableRows, TRUE) \o <<"\n">>

\* server-http.ts:100, 'Document appears to be empty.'
EmptyMarkdown ==
    <<"D", "o", "c", "u", "m", "e", "n", "t", " ", "a", "p", "p", "e", "a",
      "r", "s", " ", "t", "o", " ", "b", "e", " ", "e", "m", "p", "t", "y",
      ".">>

\* server-http.ts:104-110
ElementMarkdown(element) ==
    IF element.kind = "paragraph"
    THEN convertParagraphToMarkdown(element.paragraph)
    ELSE IF element.kind = "table" THEN convertTableToMarkdown(element.table)
    ELSE IF element.kind = "sectionBreak"
    THEN <<"\n", "-", "-", "-", "\n", "\n">>
    ELSE <<>>

\* server-http.ts:96-114
convertDocsJsonToMarkdown(docData) ==
    IF ~(docData.hasBody /\ docData.hasContent)
    THEN EmptyMarkdown
    ELSE Trim(Flat([i \in DOMAIN docData.content |->
                      ElementMarkdown(docData.content[i])]))

\* maxLength when the caller gave none (server-http.ts:242, optional)
NoMax == -1

\* a truncation test that also cuts a text of exactly maxLength characters
TruncatesAtLimit(maxLength, totalLength) ==
    maxLength # NoMax /\ maxLength # 0 /\ totalLength >= maxLength

\* server-http.ts:272 and 314, rest-api-wrapper.ts:81:
\* maxLength && totalLength > maxLength
Truncates(maxLength, totalLength) ==
    maxLength # NoMax /\ maxLength # 0 /\ totalLength > maxLength

\* server-http.ts:267-278, the markdown branch of readGoogleDoc.  The text
\* around the document's characters is kept in whole pieces.
ReadMarkdown(data, maxLength) ==
    LET From(markdownContent) ==
          IF Truncates(maxLength, Len(markdownContent))
          THEN Substring(markdownContent, maxLength)
               \o <<"\n\n... [Markdown truncated to ", ToString(maxLength),
                    " chars of ", ToString(Len(markdownContent)),
                    " total.]">>
          ELSE markdownContent
    IN From(convertDocsJsonToMarkdown(data))

\* the content of every text run of a paragraph that has one
\* (server-http.ts:286-292 and 298-302)
RunContents(elements) ==
    Flat([i \in DOMAIN elements |->
            IF /\ elements[i].hasTextRun
               /\ elements[i].textRun.hasContent
            THEN elements[i].textRun.content ELSE <<>>])

\* server-http.ts:296-304
RowContents(row) ==
    IF ~row.hasCells THEN <<>>
    ELSE Flat([c \in DOMAIN row.tableCells |->
           IF ~row.tableCells[c].hasContent THEN <<>>
           ELSE Flat([k \in DOMAIN row.tableCells[c].content |->
                  IF /\ row.tableCells[c].content[k].kind = "paragraph"
                     /\ row.tableCells[c].content[k].paragraph.hasElements
                  THEN RunContents(
                         row.tableCells[c].content[k].paragraph.elements)
                  ELSE <<>>])])

\* server-http.ts:283-307, one structural element
ElementText(element) ==
    IF element.kind = "paragraph" /\ element.paragraph.hasElements
    THEN RunContents(element.paragraph.elements)
    ELSE IF element.kind = "table" /\ element.table.hasRows
    THEN Flat([r \in DOMAIN element.table.tableRows |->
                 RowContents(element.table.tableRows[r])])
    ELSE <<>>

\* server-http.ts:280-307, textContent after the loop
TextContent(data) ==
    IF data.hasBody /\ data.hasContent
    THEN Flat([i \in DOMAIN data.content |-> ElementText(data.content[i])])
    ELSE <<>>

\* server-http.ts:280-319, the text branch of readGoogleDoc
ReadText(data, maxLength) ==
    LET From(textContent) ==
          IF Trim(textContent) = <<>>
          THEN <<"Document found, but appears empty.">>
          ELSE IF Truncates(maxLength, Len(textContent))
          THEN <<"Content (truncated to ", ToString(maxLength),
                 " chars):\n---\n">>
               \o Substring(textContent, maxLength) \o <<"\n\n...">>
          ELSE <<"Content (", ToString(Len(textContent)),
                 " characters):\n---\n">> \o textContent
    IN From(TextContent(data))

\* rest-api-wrapper.ts:72-78: a run without content appends String(undefined)
RestElementText(element) ==
    IF element.kind = "paragraph" /\ element.paragraph.hasElements
    THEN Flat([i \in DOMAIN element.paragraph.elements |->
           IF ~element.paragraph.elements[i].hasTextRun THEN <<>>
           ELSE IF element.paragraph.elements[i].textRun.hasContent
           THEN element.paragraph.elements[i].textRun.content
           ELSE <<"u", "n", "d", "e", "f", "i", "n", "e", "d">>])
    ELSE <<>>

\* rest-api-wrapper.ts:70-79, textContent after the loop
RestTextContent(data) ==
    IF data.hasBody /\ data.hasContent
    THEN Flat([i \in DOMAIN data.content |->
                 RestElementText(data.content[i])])
    ELSE <<>>

\* rest-api-wrapper.ts:70-85, the rendering of readGoogleDoc
RestReadText(data, maxLength) ==
    LET From(textContent) ==
          <<"Document Content:\n---\n">>
          \o (IF Truncates(maxLength, Len(textContent))
              THEN Substring(textContent, maxLength) \o <<"...">>
              ELSE textContent)
    IN From(RestTextContent(data))

(***************************************************************************)
(* The snapshots the renderer is applied to.                               *)
(***************************************************************************)
MaxRuns == 2        \* elements of a paragraph
MaxCells == 2       \* cells of a table row
MaxRows == 2        \* rows of a table
MaxElements == 2    \* structural elements of a document body
MaxMaxLength == 8   \* largest maxLength argument

SeqsUpTo(S, n) == UNION {[1..k -> S] : k \in 0..n}

NoStyle == [bold |-> FALSE, italic |-> FALSE, underline |-> FALSE,
            strikethrough |-> FALSE, link |-> "none"]

\* textRun.textStyle; link is absent, present without url, or present with one
TextStyles == [bold : BOOLEAN, italic : BOOLEAN, underline : BOOLEAN,
               strikethrough : BOOLEAN, link : {"none", "nourl", "url"}]

TextContents == {<<>>, <<"a">>, <<"a", "\n">>, <<" ", "b", " ">>, <<"\n">>}

\* element.textRun
TextRuns ==
    {r \in [hasContent : BOOLEAN, content : TextContents,
            hasStyle : BOOLEAN, textStyle : TextStyles] :
       /\ r.hasContent \/ r.content = <<>>
       /\ r.hasStyle \/ r.textStyle = NoStyle}

PlainRun(c) == [hasContent |-> TRUE, content |-> c, hasStyle |-> FALSE,
                textStyle |-> NoStyle]

\* an element of paragraph.elements that holds the text run r
RunElement(r) == [hasTextRun |-> TRUE, textRun |-> r]

\* an element of paragraph.elements without a text run (an inline object)
OtherElement == [hasTextRun |-> FALSE, textRun |-> PlainRun(<<>>)]

ParagraphElements ==
    {RunElement(PlainRun(<<"a">>)),
     RunElement(PlainRun(<<"a", "b", "\n">>)),
     RunElement(PlainRun(<<"\n">>)),
     RunElement([PlainRun(<<"b">>) EXCEPT
                   !.hasStyle = TRUE, !.textStyle.bold = TRUE]),
     RunElement([PlainRun(<<>>) EXCEPT !.hasContent = FALSE]),
     OtherElement}

\* element.paragraph
Paragraphs ==
    [namedStyleType : NamedStyleTypes, bullet : BOOLEAN,
     hasElements : {TRUE}, elements : SeqsUpTo(ParagraphElements, MaxRuns)]
    \cup [namedStyleType : NamedStyleTypes, bullet : BOOLEAN,
          hasElements : {FALSE}, elements : {<<>>}]

NoParagraph == [namedStyleType |-> "", bullet |-> FALSE,
                hasElements |-> FALSE, elements |-> <<>>]

NoTable == [hasRows |-> FALSE, tableRows |-> <<>>]

\* a structural element that holds paragraph p
ParagraphOf(p) == [kind |-> "paragraph", paragraph |-> p, table |-> NoTable]

\* a normal paragraph of one plain text run
TextParagraph(c) ==
    ParagraphOf([NoParagraph EXCEPT !.namedStyleType = "NORMAL_TEXT",
                                    !.hasElements = TRUE,
                                    !.elements = <<RunElement(PlainRun(c))>>])

\* tableRow.tableCells[i]
Cells ==
    {[hasContent |-> FALSE, content |-> <<>>],
     [hasContent |-> TRUE,
      content |-> <<TextParagraph(<<"a", "\n", "b", "\n">>),
                    TextParagraph(<<"b", "\n">>)>>]}

\* table.tableRows[i]
Rows ==
    {[hasCells |-> FALSE, tableCells |-> <<>>]}
    \cup [hasCells : {TRUE}, tableCells : SeqsUpTo(Cells, MaxCells)]

\* element.table
Tables ==
    {NoTable} \cup [hasRows : {TRUE}, tableRows : SeqsUpTo(Rows, MaxRows)]

\* body.content[i]
DocElements ==
    {TextParagraph(<<"a", "b", "\n">>),
     TextParagraph(<<"\n">>),
     ParagraphOf(NoParagraph),
     ParagraphOf([TextParagraph(<<"a", "\n">>).paragraph EXCEPT
                    !.namedStyleType = "HEADING_1"]),
     ParagraphOf([TextParagraph(<<"b", "\n">>).paragraph EXCEPT
                    !.bullet = TRUE]),
     [kind |-> "table", paragraph |-> NoParagraph,
      table |-> [hasRows |-> TRUE,
                 tableRows |-> <<[hasCells |-> TRUE,
                                  tableCells |-> <<[hasContent |-> TRUE,
                                     content |-> <<TextParagraph(
                                                     <<"b", "\n">>)>>]>>]>>]],
     [kind |-> "sectionBreak", paragraph |-> NoParagraph, table |-> NoTable],
     [kind |-> "other", paragraph |-> NoParagraph, table |-> NoTable]}

\* res.data of documents.get: without body, without body.content, or with a
\* content list
Documents ==
    {[hasBody |-> FALSE, hasContent |-> FALSE, content |-> <<>>],
     [hasBody |-> TRUE, hasContent |-> FALSE, content |-> <<>>]}
    \cup [hasBody : {TRUE}, hasContent : {TRUE},
          content : SeqsUpTo(DocElements, MaxElements)]

\* args.maxLength
MaxLengths == {NoMax} \cup 0..MaxMaxLength

\* no rendering call is under way
NoRendering == [fn |-> "none", arg |-> <<>>, maxLength |-> NoMax,
                done |-> FALSE, out |-> <<>>]

(***************************************************************************)
(* The process.                                                            *)
(***************************************************************************)

\* the state when the module has been loaded (rest-api-wrapper.ts:17-19,
\* server-http.ts:25-27) and startServer() is about to run
Init ==
    /\ server \in {"rest", "mcp"}
    /\ env \in Environments
    /\ files \in FileSystems
    /\ authClient = NullClient
    /\ googleDocs = NullApi
    /\ googleDrive = NullApi
    /\ phase = "starting"
    /\ pc = "idle"
    /\ req = NoReq
    /\ res = NoRes
    /\ ret = NoRet
    /\ log = <<>>
    /\ calls = <<>>
    /\ authLog = NoAuthLog
    /\ rendering = NoRendering

\* the same module state with the server already accepting requests: the
\* handlers taken on their own, entered with the cache still unset.  Both
\* startServer functions initialize before they listen, so the process itself
\* (Spec) enters a handler only with the cache set; every dispatch of Spec is
\* a dispatch of SpecHandler.
InitHandler ==
    /\ server \in {"rest", "mcp"}
    /\ env \in Environments
    /\ files \in FileSystems
    /\ authClient = NullClient
    /\ googleDocs = NullApi
    /\ googleDrive = NullApi
    /\ phase = "listening"
    /\ pc = "idle"
    /\ req = NoReq
    /\ res = NoRes
    /\ ret = NoRet
    /\ log = <<>>
    /\ calls = <<>>
    /\ authLog = NoAuthLog
    /\ rendering = NoRendering

\* The outside inputs one initializeGoogleClient() call can consume: none when
\* it returns the cached clients (rest-api-wrapper.ts:22, server-http.ts:31).
InitInputs ==
    IF googleDocs.set /\ googleDrive.set
    THEN {[later |-> files, introspectOk |-> TRUE, exchangeOk |-> TRUE,
           refreshTok |-> TRUE, writeOk |-> TRUE]}
    ELSE AuthInputs

InitializeGoogleClient(in) ==
    IF server = "rest" THEN RestInitializeGoogleClient(in)
    ELSE McpInitializeGoogleClient(in)

ResolveEvent(r) == IF r.authorized THEN "resolve" ELSE "cached"

\* a start-up that listens whatever initializeGoogleClient did
StartServerAlwaysListens ==
    /\ phase = "starting"
    /\ \E in \in InitInputs : \E r \in {InitializeGoogleClient(in)} :
         /\ authClient' = r.authClient
         /\ googleDocs' = r.googleDocs
         /\ googleDrive' = r.googleDrive
         /\ files' = r.files
         /\ authLog' = r.authLog
         /\ phase' = "listening"
    /\ UNCHANGED rendering
    /\ UNCHANGED <<server, env, pc, req, res, ret, log, calls>>

\* rest-api-wrapper.ts:242-261 and server-http.ts:346-370
StartServer ==
    /\ phase = "starting"
    /\ \E in \in InitInputs : \E r \in {InitializeGoogleClient(in)} :
         /\ authClient' = r.authClient
         /\ googleDocs' = r.googleDocs
         /\ googleDrive' = r.googleDrive
         /\ files' = r.files
         /\ authLog' = r.authLog
         /\ phase' = IF r.ok THEN "listening" ELSE "exited"
    /\ UNCHANGED rendering
    /\ UNCHANGED <<server, env, pc, req, res, ret, log, calls>>

\* a dispatcher that looks the tool up without testing toolName first
McpCallReceiveNoNameTest ==
    /\ server = "rest"
    /\ phase = "listening"
    /\ pc \in {"idle", "done"}
    /\ \E t \in RequestNames, a \in ArgBags :
         /\ req' = [toolName |-> t, args |-> a]
         /\ IF ~Lookup(t).truthy
            THEN /\ res' = RespondNotFound(t)
                 /\ pc' = "done"
                 /\ log' = <<"respond">>
            ELSE /\ res' = NoRes
                 /\ pc' = "init"
                 /\ log' = <<>>
    /\ ret' = NoRet
    /\ calls' = <<>>
    /\ UNCHANGED rendering
    /\ UNCHANGED <<server, env, files, authClient, googleDocs, googleDrive,
                   phase, authLog>>

\* rest-api-wrapper.ts:203-217: the request arrives and the tool is looked up
McpCallReceive ==
    /\ server = "rest"
    /\ phase = "listening"
    /\ pc \in {"idle", "done"}
    /\ \E t \in RequestNames, a \in ArgBags :
         /\ req' = [toolName |-> t, args |-> a]
         /\ IF Falsy(t)
            THEN /\ res' = RespondMissingName
                 /\ pc' = "done"
                 /\ log' = <<"respond">>
            ELSE IF ~Lookup(t).truthy
            THEN /\ res' = RespondNotFound(t)
                 /\ pc' = "done"
                 /\ log' = <<"respond">>
            ELSE /\ res' = NoRes
                 /\ pc' = "init"
                 /\ log' = <<>>
    /\ ret' = NoRet
    /\ calls' = <<>>
    /\ UNCHANGED rendering
    /\ UNCHANGED <<server, env, files, authClient, googleDocs, googleDrive,
                   phase, authLog>>

\* a dispatcher that runs the handler whatever initializeGoogleClient did
AfterInitAlwaysExec(ok) == "exec"

\* where the dispatch goes after await initializeGoogleClient()
\* (rest-api-wrapper.ts:218-225): on to the handler, or into the catch
AfterInit(ok) == IF ok THEN "exec" ELSE "done"

\* a dispatcher that goes to the handler without initializeGoogleClient()
McpCallInitSkipped ==
    /\ server = "rest"
    /\ pc = "init"
    /\ pc' = "exec"
    /\ UNCHANGED rendering
    /\ UNCHANGED <<server, env, files, authClient, googleDocs, googleDrive,
                   phase, req, res, ret, log, calls, authLog>>

\* rest-api-wrapper.ts:218: await initializeGoogleClient()
McpCallInit ==
    /\ server = "rest"
    /\ pc = "init"
    /\ \E in \in InitInputs : \E r \in {RestInitializeGoogleClient(in)} :
         /\ authClient' = r.authClient
         /\ googleDocs' = r.googleDocs
         /\ googleDrive' = r.googleDrive
         /\ files' = r.files
         /\ authLog' = r.authLog
         /\ pc' = AfterInit(r.ok)
         /\ IF r.ok
            THEN /\ log' = Append(log, ResolveEvent(r))
                 /\ res' = res
            ELSE /\ log' = log \o <<ResolveEvent(r), "respond">>
                 /\ res' = RespondCatch(<<r.err>>)
    /\ UNCHANGED rendering
    /\ UNCHANGED <<server, env, phase, req, ret, calls>>

\* rest-api-wrapper.ts:219-225: the handler runs and the response is sent
McpCallExecute ==
    /\ server = "rest"
    /\ pc = "exec"
    /\ \E out \in OutcomesFor(req.toolName, req.args) :
         IF Lookup(req.toolName).hasExecute
         THEN \E h \in {Execute(req.toolName, req.args, out)} :
              /\ calls' = h.calls
              /\ log' = log \o <<"handler">>
                            \o RepeatEvent("upstream", Len(h.calls))
                            \o <<"respond">>
              /\ res' = IF h.threw THEN RespondCatch(h.message)
                        ELSE RespondSuccess(h.value)
         ELSE \* tool.execute is undefined: the call throws a TypeError
              /\ calls' = <<>>
              /\ log' = Append(log, "respond")
              /\ res' = RespondCatch(<<"tool.execute is not a function">>)
    /\ pc' = "done"
    /\ UNCHANGED rendering
    /\ UNCHANGED <<server, env, files, authClient, googleDocs, googleDrive,
                   phase, req, ret, authLog>>

\* server-http.ts:236-244 and 332-340: a tool's execute() is entered with
\* arguments that passed its schema
ToolCall ==
    /\ server = "mcp"
    /\ phase = "listening"
    /\ pc \in {"idle", "done"}
    /\ \E t \in {"readGoogleDoc", "healthCheck"}, a \in McpArgBags :
         IF t = "healthCheck"
         THEN /\ req' = [toolName |-> t, args |-> NoArgs]
              /\ ret' = [kind |-> "return", text |-> <<"OK">>]
              /\ pc' = "done"
              /\ log' = <<"handler", "return">>
         ELSE /\ req' = [toolName |-> t, args |-> a]
              /\ ret' = NoRet
              /\ pc' = "client"
              /\ log' = <<"handler">>
    /\ res' = NoRes
    /\ calls' = <<>>
    /\ UNCHANGED rendering
    /\ UNCHANGED <<server, env, files, authClient, googleDocs, googleDrive,
                   phase, authLog>>

\* server-http.ts:245 with 77-83: const docs = await getDocsClient()
ExecuteGetDocsClient ==
    /\ server = "mcp"
    /\ pc = "client"
    /\ \E in \in InitInputs : \E r \in {McpInitializeGoogleClient(in)} :
         /\ authClient' = r.authClient
         /\ googleDocs' = r.googleDocs
         /\ googleDrive' = r.googleDrive
         /\ files' = r.files
         /\ authLog' = r.authLog
         /\ IF r.ok
            THEN /\ pc' = "fetch"
                 /\ log' = Append(log, ResolveEvent(r))
                 /\ ret' = ret
            ELSE /\ pc' = "done"
                 /\ log' = log \o <<ResolveEvent(r), "throw">>
                 /\ ret' = [kind |-> "Error", text |-> <<r.err>>]
    /\ UNCHANGED rendering
    /\ UNCHANGED <<server, env, phase, req, res, calls>>

\* server-http.ts:248-327: the document is fetched and rendered
ExecuteFetch ==
    /\ server = "mcp"
    /\ pc = "fetch"
    /\ \E out \in UpstreamOutcomes :
         \E r \in {McpReadGoogleDoc(req.args, out)} :
           /\ ret' = r
           /\ log' = log \o <<"upstream",
                              IF r.kind = "return" THEN "return" ELSE "throw">>
           /\ calls' = <<[api |-> "docs.documents.get",
                          arg |-> req.args.documentId, code |-> out.code]>>
    /\ pc' = "done"
    /\ UNCHANGED rendering
    /\ UNCHANGED <<server, env, files, authClient, googleDocs, googleDrive,
                   phase, req, res, authLog>>

Next ==
    \/ StartServer
    \/ McpCallReceive
    \/ McpCallInit
    \/ McpCallExecute
    \/ ToolCall
    \/ ExecuteGetDocsClient
    \/ ExecuteFetch

Spec == Init /\ [][Next]_vars

NextHandler ==
    \/ McpCallReceive
    \/ McpCallInit
    \/ McpCallExecute
    \/ ToolCall
    \/ ExecuteGetDocsClient
    \/ ExecuteFetch

SpecHandler == InitHandler /\ [][NextHandler]_vars

(***************************************************************************)
(* The renderer on its own: one call of a rendering function, its argument *)
(* drawn from the snapshots above.                                         *)
(***************************************************************************)
Call(f, x, m) == [fn |-> f, arg |-> x, maxLength |-> m, done |-> FALSE,
                  out |-> <<>>]

RenderCalls ==
    {Call("convertTextRunToMarkdown", r, NoMax) : r \in TextRuns}
    \cup {Call("convertParagraphToMarkdown", p, NoMax) : p \in Paragraphs}
    \cup {Call("convertTableToMarkdown", t, NoMax) : t \in Tables}
    \cup {Call(f, d, m) : f \in {"markdown", "text", "rest"},
                          d \in Documents, m \in MaxLengths}

\* a process that serves requests, about to render
InitRender ==
    /\ rendering \in RenderCalls
    /\ server = IF rendering.fn = "rest" THEN "rest" ELSE "mcp"
    /\ env = [GOOGLE_CREDENTIALS |-> "ok", GOOGLE_TOKEN |-> "ok"]
    /\ files = [credentials |-> "absent", token |-> "absent"]
    /\ authClient = [set |-> TRUE, source |-> "env", idSecret |-> TRUE,
                     token |-> "ok"]
    /\ googleDocs = ApiFor(authClient)
    /\ googleDrive = ApiFor(authClient)
    /\ phase = "listening"
    /\ pc = "idle"
    /\ req = NoReq
    /\ res = NoRes
    /\ ret = NoRet
    /\ log = <<>>
    /\ calls = <<>>
    /\ authLog = NoAuthLog

processVars == <<server, env, files, authClient, googleDocs, googleDrive,
                 phase, pc, req, res, ret, log, calls, authLog>>

Finish(out) == rendering' = [rendering EXCEPT !.done = TRUE, !.out = out]

ConvertTextRun ==
    /\ rendering.fn = "convertTextRunToMarkdown"
    /\ ~rendering.done
    /\ Finish(convertTextRunToMarkdown(rendering.arg))
    /\ UNCHANGED processVars

ConvertParagraph ==
    /\ rendering.fn = "convertParagraphToMarkdown"
    /\ ~rendering.done
    /\ Finish(convertParagraphToMarkdown(rendering.arg))
    /\ UNCHANGED processVars

ConvertTable ==
    /\ rendering.fn = "convertTableToMarkdown"
    /\ ~rendering.done
    /\ Finish(convertTableToMarkdown(rendering.arg))
    /\ UNCHANGED processVars

ReadAsMarkdown ==
    /\ rendering.fn = "markdown"
    /\ ~rendering.done
    /\ Finish(ReadMarkdown(rendering.arg, rendering.maxLength))
    /\ UNCHANGED processVars

ReadAsText ==
    /\ rendering.fn = "text"
    /\ ~rendering.done
    /\ Finish(ReadText(rendering.arg, rendering.maxLength))
    /\ UNCHANGED processVars

RestRead ==
    /\ rendering.fn = "rest"
    /\ ~rendering.done
    /\ Finish(RestReadText(rendering.arg, rendering.maxLength))
    /\ UNCHANGED processVars

NextRender ==
    \/ ConvertTextRun
    \/ ConvertParagraph
    \/ ConvertTable
    \/ ReadAsMarkdown
    \/ ReadAsText
    \/ RestRead

SpecRender == InitRender /\ [][NextRender]_vars

(***************************************************************************)
(* Vocabulary of the properties.                                           *)
(***************************************************************************)
\* number of occurrences of event e in the log of the dispatch in flight
Count(e) == Cardinality({i \in DOMAIN log : log[i] = e})

\* log[i] is the point where the dispatch got its credential handle
Obtained(i) == log[i] \in {"resolve", "cached"}

\* the error kind an HTTP status of the REST facade stands for
KindOf(status) ==
    CASE status = 400 -> "InvalidArgument"
      [] status = 403 -> "PermissionDenied"
      [] status = 404 -> "NotFound"
      [] status = 500 -> "Internal"
      [] OTHER -> "none"

\* the error kind the upstream error code calls for
KindFor(code) ==
    CASE code = 403 -> "PermissionDenied"
      [] code = 404 -> "NotFound"
      [] OTHER -> "Internal"

\* message msg names the field f
Names(msg, f) == \E i \in DOMAIN msg : msg[i] = f

\* the field a tool cannot work without
RequiredFields ==
    [readGoogleDoc |-> "documentId", searchGoogleDocs |-> "searchQuery",
     createDocument |-> "title"]

RestDone == server = "rest" /\ pc = "done"

\* the dispatch in flight has ended in a failure
Failed ==
    IF server = "rest" THEN res.sent /\ ~res.success
    ELSE ret.kind \in {"Error", "UserError"}

\* credential resolution was attempted in this dispatch and failed
ResolutionFailed == Count("resolve") >= 1 /\ ~authLog.ok

(***************************************************************************)
(* Properties of the dispatcher.                                           *)
(***************************************************************************)
\* C1: a POST /api/mcp/call naming a tool that is not registered is answered
\* with a NotFound failure (404, success false), and neither a handler nor
\* an upstream call runs.
C1_UnknownToolIsNotFound ==
    (RestDone /\ ~Falsy(req.toolName) /\ req.toolName \notin ToolNames) =>
        /\ res.sent
        /\ ~res.success
        /\ KindOf(res.status) = "NotFound"
        /\ Count("handler") = 0
        /\ calls = <<>>

\* C2: a dispatch of readGoogleDoc, searchGoogleDocs or createDocument whose
\* argument bag lacks the tool's required field fails with InvalidArgument,
\* the message names the field, and the upstream API is not called.
C2_MissingFieldIsInvalidArgument ==
    (/\ RestDone
     /\ req.toolName \in DOMAIN RequiredFields
     /\ req.args[RequiredFields[req.toolName]] = Undefined) =>
        /\ res.sent
        /\ ~res.success
        /\ KindOf(res.status) = "InvalidArgument"
        /\ Names(res.error, RequiredFields[req.toolName])
        /\ calls = <<>>

\* C3: when the upstream call of a dispatch fails, the result's kind follows
\* the upstream error: 403 gives PermissionDenied, 404 gives NotFound,
\* anything else gives Internal, with the upstream message in the result.
C3_UpstreamFailureIsClassified ==
    (RestDone /\ calls # <<>> /\ calls[1].code # 200) =>
        /\ res.sent
        /\ ~res.success
        /\ KindOf(res.status) = KindFor(calls[1].code)
        /\ res.hasError
        /\ Len(res.error) >= 1

\* C4: every dispatch of the REST facade ends with exactly one normalized
\* result: a dispatch in flight can always go on, nothing is sent before it
\* has ended, exactly one response exists once it has, and a failure carries
\* an error kind and a non-empty message, whether the failure came from
\* credential resolution or from the handler.
C4_OneNormalizedResult ==
    server = "rest" =>
        /\ Count("respond") <= 1
        /\ (pc = "done") <=> (Count("respond") = 1)
        /\ (pc = "done") <=> res.sent
        /\ pc = "init" => ENABLED McpCallInit
        /\ pc = "exec" => ENABLED McpCallExecute
        /\ (res.sent /\ ~res.success) =>
              /\ KindOf(res.status) # "none"
              /\ res.hasError
              /\ Len(res.error) >= 1

\* a dispatch whose credential resolution succeeded and whose handler threw
C4_Witness ==
    /\ RestDone
    /\ log = <<"resolve", "handler", "respond">>
    /\ ~res.success
    /\ KindOf(res.status) = "Internal"

\* C5: every result of the REST facade has exactly one arm: success carries
\* data and no error, failure carries an error and no data.
C5_ExactlyOneArm ==
    (server = "rest" /\ res.sent) =>
        /\ res.success => (res.hasData /\ ~res.hasError)
        /\ ~res.success => (res.hasError /\ ~res.hasData /\ res.data = <<>>)

\* a dispatch that failed after its upstream call had been issued
C5_Witness ==
    /\ RestDone
    /\ ~res.success
    /\ Len(calls) = 1
    /\ res.hasError

C8_NoRetry ==
    /\ Len(calls) <= 1
    /\ Count("upstream") = Len(calls)
    /\ (pc = "done" /\ calls # <<>> /\ calls[1].code # 200) =>
          /\ Failed
          /\ Count("respond") + Count("throw") = 1
          /\ Count("return") = 0

\* a REST dispatch whose single upstream call failed
C8_Witness ==
    /\ RestDone
    /\ Len(calls) = 1
    /\ calls[1].code = 503
    /\ ~res.success

(***************************************************************************)
(* Properties of credential resolution.                                    *)
(***************************************************************************)
BothInjected ==
    env.GOOGLE_CREDENTIALS # "absent" /\ env.GOOGLE_TOKEN # "absent"

\* C9: with both injected secrets present and one of them unparseable,
\* authorize() fails and hands no local file to fs.readFile.
C9_UnparseableSecretIsFatal ==
    (/\ authLog.called
     /\ BothInjected
     /\ ~(Parses(env.GOOGLE_CREDENTIALS) /\ Parses(env.GOOGLE_TOKEN))) =>
        /\ ~authLog.ok
        /\ authLog.reads = <<>>

\* C10: with both injected secrets present and parseable and an installed
\* or web entry in the client config, authorize() succeeds with a client
\* built from the injected values, and reads and writes no local file.
C10_InjectedSecretsOnly ==
    (/\ authLog.called
     /\ BothInjected
     /\ Parses(env.GOOGLE_CREDENTIALS)
     /\ Parses(env.GOOGLE_TOKEN)
     /\ HasKey(env.GOOGLE_CREDENTIALS)) =>
        /\ authLog.ok
        /\ authLog.source = "env"
        /\ authLog.reads = <<>>
        /\ ~authLog.wrote
        /\ ~authLog.prompted
        /\ authClient.set
        /\ authClient.source = "env"
        /\ authClient.token = env.GOOGLE_TOKEN
        /\ authClient.idSecret = (env.GOOGLE_CREDENTIALS = "ok")

\* resolution from injected secrets while valid local files exist as well
C10_Witness ==
    /\ authLog.called
    /\ env.GOOGLE_CREDENTIALS = "ok"
    /\ env.GOOGLE_TOKEN = "ok"
    /\ files.credentials = "ok"
    /\ files.token = "ok"
    /\ phase = "listening"

\* the managed secret source is in effect (auth-cloudrun.ts:173)
Managed == env.GOOGLE_CREDENTIALS # "absent"

\* C11: under the managed secret source, credential resolution never starts
\* the interactive prompt: the call ends with a handle or with an error.
C11_ManagedSourceNeverPrompts ==
    (authLog.called /\ Managed) =>
        /\ ~authLog.prompted
        /\ authLog.ok \/ authLog.err # ""
        /\ authLog.ok => authClient.set

\* resolution under the managed source found no usable client and failed
C11_Witness ==
    /\ authLog.called
    /\ Managed
    /\ ~authLog.ok
    /\ Names(<<authLog.err>>, "No valid credentials found in Cloud Run environment. Please check Secret Manager configuration.")

\* C12: token.json is written only under the file-based source: with the
\* managed source in effect no operation of the resolver writes it.
C12_TokenWrittenOnlyUnderFileSource ==
    Managed => (~authLog.wrote /\ files.token # "saved")

\* the interactive flow stored its token, under the file-based source
C12_Witness ==
    /\ authLog.wrote
    /\ files.token = "saved"
    /\ ~Managed

\* C13: the handle is cached for the life of the process.  Once the clients
\* are set, no step changes them, and initializeGoogleClient returns them
\* without calling authorize(); while they are unset, initializeGoogleClient
\* calls authorize() again.
C13_Step ==
    LET cached == googleDocs.set /\ googleDrive.set
        initStep == pc \in {"init", "client"} /\ pc' # pc
    IN /\ cached => UNCHANGED <<authClient, googleDocs, googleDrive>>
       /\ (cached /\ initStep) =>
              /\ log' = Append(log, "cached")
              /\ UNCHANGED <<authLog, files>>
       /\ (~cached /\ initStep) =>
              /\ Len(log') > Len(log)
              /\ log'[Len(log) + 1] = "resolve"
              /\ authLog'.called

C13_CachedHandleReused == [][C13_Step]_vars

\* a dispatch found the clients set by an earlier dispatch and reused them
C13_Witness ==
    /\ Count("cached") = 1
    /\ authLog.called
    /\ authLog.ok
    /\ googleDocs.set /\ googleDrive.set

\* C14: resolution never returns a partially constructed handle: a call that
\* succeeds returns a client that carries a client id and secret and a
\* token that was present and parsed.
C14_NoPartialHandle ==
    (authLog.called /\ authLog.ok) =>
        /\ authClient.set
        /\ authClient.idSecret
        /\ Parses(authClient.token)

\* C20: every tool of the README's "Available MCP Tools" table can be called
\* through the generic tool-call endpoint: a call that names one of them
\* never ends in the 'tool not found' result.
C20_DocumentedToolsAreCallable ==
    (RestDone /\ req.toolName \in ReadmeTools) =>
        /\ KindOf(res.status) # "NotFound"
        /\ ~Names(res.error, "' not found")

(***************************************************************************)
(* Vocabulary of the rendering properties.                                 *)
(***************************************************************************)
\* the rendering call under way has returned
Rendered(f) == rendering.fn = f /\ rendering.done

\* the three renderings of a whole document
Reads == {"markdown", "text", "rest"}

ReadDone == rendering.fn \in Reads /\ rendering.done

\* what a read of document d with maximum m returns
ReadResult(f, d, m) ==
    IF f = "markdown" THEN ReadMarkdown(d, m)
    ELSE IF f = "text" THEN ReadText(d, m)
    ELSE RestReadText(d, m)

\* the full rendering of document d, whose length the maximum is compared to
FullRendering(f, d) ==
    IF f = "markdown" THEN convertDocsJsonToMarkdown(d)
    ELSE IF f = "text" THEN TextContent(d)
    ELSE RestTextContent(d)

\* the snapshot has no body content, an empty content list, or content whose
\* text runs hold nothing but white space
EmptySnapshot(d) ==
    \/ ~(d.hasBody /\ d.hasContent)
    \/ d.content = <<>>
    \/ Trim(TextContent(d)) = <<>>

\* the 'document is empty' sentinels of the two servers
EmptySentinels == {EmptyMarkdown, <<"Document found, but appears empty.">>}

\* t occurs in s as a contiguous piece
Contains(s, t) ==
    \E k \in 0..(Len(s) - Len(t)) : SubSeq(s, k + 1, k + Len(t)) = t

CountChar(s, c) == Cardinality({i \in DOMAIN s : s[i] = c})

\* the lines of s that are not blank, in order
RECURSIVE NonBlankLines(_)
NonBlankLines(s) ==
    IF s = <<>> THEN <<>>
    ELSE IF \A i \in DOMAIN s : s[i] # "\n" THEN <<s>>
    ELSE LET k == CHOOSE i \in DOMAIN s :
                    s[i] = "\n" /\ \A j \in 1..(i - 1) : s[j] # "\n"
         IN (IF k = 1 THEN <<>> ELSE <<SubSeq(s, 1, k - 1)>>)
            \o NonBlankLines(SubSeq(s, k + 1, Len(s)))

\* C15: for every empty snapshot, read without a maximum, the plain-text and
\* the Markdown rendering return a non-empty 'document is empty' sentinel.
C15_EmptySnapshotYieldsSentinel ==
    (ReadDone /\ rendering.maxLength = NoMax
              /\ EmptySnapshot(rendering.arg)) =>
        /\ rendering.out # <<>>
        /\ rendering.out \in EmptySentinels

\* the emphasis marker a text style asks for: 3, 2, 1 or no asterisks
Marker(style) ==
    Repeat("*", IF style.bold /\ style.italic THEN 3
                ELSE IF style.bold THEN 2
                ELSE IF style.italic THEN 1
                ELSE 0)

\* C16: a styled text run is wrapped in one emphasis marker on each side of
\* its text: *** when bold and italic, ** when bold alone, * when italic
\* alone; the output holds no other asterisk.
C16_OneEmphasisMarker ==
    (Rendered("convertTextRunToMarkdown") /\ rendering.arg.hasStyle) =>
        /\ Contains(rendering.out,
                    Marker(rendering.arg.textStyle) \o rendering.arg.content
                    \o Marker(rendering.arg.textStyle))
        /\ CountChar(rendering.out, "*")
             = 2 * Len(Marker(rendering.arg.textStyle))

\* a bold and italic run of text was converted
C16_Witness ==
    /\ Rendered("convertTextRunToMarkdown")
    /\ rendering.arg.hasStyle
    /\ rendering.arg.textStyle.bold /\ rendering.arg.textStyle.italic
    /\ rendering.arg.content = <<"a">>
    /\ Contains(rendering.out, <<"*", "*", "*", "a", "*", "*", "*">>)

\* the rows of a table that have a cell list, in order
RowsWithCells(table) == SelectSeq(table.tableRows, LAMBDA row : row.hasCells)

\* line l is the line of a row of k cells: it opens with a bar, has one more
\* bar per cell, and holds no dash
IsRowLine(l, k) ==
    /\ l # <<>>
    /\ l[1] = "|"
    /\ CountChar(l, "|") = k + 1
    /\ CountChar(l, "-") = 0

\* the output lines are one line per row of rows, with the separator line of
\* the first of them as second line
RowLinesAndSeparator(lines, rows) ==
    /\ Len(lines) = Len(rows) + 1
    /\ lines[2] = Separator(Len(rows[1].tableCells))
    /\ \A i \in DOMAIN rows :
          IsRowLine(lines[IF i = 1 THEN 1 ELSE i + 1],
                    Len(rows[i].tableCells))

ReadMax == rendering.maxLength
ReadTotal == Len(FullRendering(rendering.fn, rendering.arg))

\* the first characters of the full rendering, up to the maximum
KeptPrefix == Substring(FullRendering(rendering.fn, rendering.arg), ReadMax)

HeaderLen(f) == IF f = "markdown" THEN 0 ELSE IF f = "text" THEN 3 ELSE 1

\* the streaming text format answers a blank text with its sentinel
BlankText ==
    rendering.fn = "text" /\ Trim(TextContent(rendering.arg)) = <<>>

C19_LargeMaximumChangesNothing ==
    (ReadDone /\ ReadMax # NoMax /\ ReadMax >= ReadTotal) =>
        rendering.out = ReadResult(rendering.fn, rendering.arg, NoMax)

\* a rendering of exactly M >= 1 characters was read with maximum M
C19_Witness ==
    /\ ReadDone
    /\ ReadMax >= 1
    /\ ReadMax = ReadTotal
    /\ ~BlankText
    /\ Len(rendering.out) = ReadTotal + HeaderLen(rendering.fn)

\* the heading level a named style stands for, 0 when it is no heading
LevelOf(styleType) ==
    CASE styleType = "TITLE" -> 1
      [] styleType = "SUBTITLE" -> 2
      [] styleType = "HEADING_1" -> 1
      [] styleType = "HEADING_2" -> 2
      [] styleType = "HEADING_3" -> 3
      [] styleType = "HEADING_4" -> 4
      [] styleType = "HEADING_5" -> 5
      [] styleType = "HEADING_6" -> 6
      [] styleType = "HEADING_7" -> 7
      [] OTHER -> 0

\* the paragraph converted has text left after trimming
ParagraphWithText ==
    /\ Rendered("convertParagraphToMarkdown")
    /\ rendering.arg.hasElements
    /\ Trim(ParagraphText(rendering.arg.elements)) # <<>>

\* the number of characters c that s starts with
RECURSIVE LeadingCount(_, _)
LeadingCount(s, c) ==
    IF s # <<>> /\ Head(s) = c THEN 1 + LeadingCount(Tail(s), c) ELSE 0

\* C21: a paragraph with text whose named style is a heading of level n
\* renders with exactly min(n, 6) '#' characters, at least one, before a
\* space and the text; a title renders with one '#', a subtitle with two.
C21_HeadingHashes ==
    (ParagraphWithText /\ LevelOf(rendering.arg.namedStyleType) >= 1) =>
        /\ LeadingCount(rendering.out, "#")
             = (IF LevelOf(rendering.arg.namedStyleType) < 6
                THEN LevelOf(rendering.arg.namedStyleType) ELSE 6)
        /\ LeadingCount(rendering.out, "#") >= 1
        /\ CountChar(rendering.out, "#") = LeadingCount(rendering.out, "#")
        /\ rendering.out[LeadingCount(rendering.out, "#") + 1] = " "

\* a paragraph of level 7 with text was converted, to six '#' characters
C21_Witness ==
    /\ ParagraphWithText
    /\ rendering.arg.namedStyleType = "HEADING_7"
    /\ SubSeq(rendering.out, 1, 7) = <<"#", "#", "#", "#", "#", "#", " ">>

\* C22: every bulleted paragraph with text is emitted as a list item that
\* starts with the '- ' prefix, whatever its named style.
C22_BulletPrefix ==
    (ParagraphWithText /\ rendering.arg.bullet) =>
        SubSeq(rendering.out, 1, 2) = <<"-", " ">>

\* the text of a run in its emphasis, underline and strikethrough markers and
\* its link construct, from the inside to the outside
Nested(textRun) ==
    LET style == textRun.textStyle
        emphasized == Marker(style) \o textRun.content \o Marker(style)
        underlined == IF style.underline /\ style.link = "none"
                      THEN <<"<", "u", ">">> \o emphasized
                           \o <<"<", "/", "u", ">">>
                      ELSE emphasized
        struck == IF style.strikethrough
                  THEN <<"~", "~">> \o underlined \o <<"~", "~">>
                  ELSE underlined
    IN IF style.link = "url"
       THEN <<"[">> \o struck \o <<"]", "(">> \o LinkUrl \o <<")">>
       ELSE struck

\* C23: the inline markers of a text run nest in one order, from the inside
\* to the outside: emphasis, underline, strikethrough, link; the underline
\* marker is there exactly when the run is underlined and is no hyperlink.
C23_MarkerNesting ==
    (Rendered("convertTextRunToMarkdown") /\ rendering.arg.hasStyle) =>
        /\ rendering.out = Nested(rendering.arg)
        /\ Contains(rendering.out, <<"<", "u", ">">>)
             <=> (/\ rendering.arg.textStyle.underline
                  /\ rendering.arg.textStyle.link = "none")

\* a bold, underlined and struck-through run without link was converted
C23_Witness ==
    /\ Rendered("convertTextRunToMarkdown")
    /\ rendering.arg.hasStyle
    /\ rendering.arg.content = <<"a">>
    /\ rendering.out = <<"~", "~", "<", "u", ">", "*", "*", "a", "*", "*",
                         "<", "/", "u", ">", "~", "~">>

\* the text of all runs of all paragraphs of a cell, in order, with every
\* newline replaced by a space and nothing else changed
FlattenedCellText(cell) ==
    ReplaceNewlines(
        Flat([k \in DOMAIN cell.content |->
                IF /\ cell.content[k].kind = "paragraph"
                   /\ cell.content[k].paragraph.hasElements
                THEN RunContents(cell.content[k].paragraph.elements)
                ELSE <<>>]))

\* the line of a row whose cells hold their flattened text
FlattenedRowLine(tableCells) ==
    <<"|">> \o Flat([i \in DOMAIN tableCells |->
                       <<" ">> \o FlattenedCellText(tableCells[i])
                       \o <<" ", "|">>])

\* C24: in a rendered table row each cell's text is the concatenation, in
\* order, of the text of all runs of all paragraphs of the cell with every
\* newline replaced by a space; no other character of the runs is dropped.
C24_CellTextIsFlattenedRuns ==
    (/\ Rendered("convertTableToMarkdown")
     /\ rendering.arg.hasRows
     /\ RowsWithCells(rendering.arg) # <<>>) =>
        \A i \in DOMAIN RowsWithCells(rendering.arg) :
            NonBlankLines(rendering.out)[IF i = 1 THEN 1 ELSE i + 1]
              = FlattenedRowLine(RowsWithCells(rendering.arg)[i].tableCells)

\* what the first load of the last authorize() call found, provided the
\* files did not change during the call
Stored == loadCredentialsFromEnvOrFile(env, files).data

\* C25: a failure of the token introspection is not fatal: with a client
\* config and a token that parse, and an installed or web entry in the
\* config, the resolution returns the handle with the stored token
\* installed, whether the introspection call succeeds or fails.
C25_IntrospectionFailureIsNotFatal ==
    (/\ authLog.called
     /\ authLog.filesStatic
     /\ Stored.loaded
     /\ HasKey(Stored.credentials)) =>
        /\ authLog.ok
        /\ authClient.set
        /\ authClient.token = Stored.token
        /\ authClient.source = Stored.source

\* the introspection call failed and the resolution returned the handle
C25_Witness ==
    /\ authLog.called
    /\ ~authLog.validated
    /\ authLog.ok
    /\ authClient.set
    /\ authClient.token = "ok"
    /\ phase = "listening"

\* C26: a generic tool call without toolName is rejected with a 400 failure
\* result before any registry lookup: the step that receives it ends the
\* dispatch, calls neither initializeGoogleClient nor a handler nor the
\* upstream API, and leaves the cached clients as they were.
C26_Step ==
    (/\ server = "rest"
     /\ phase = "listening"
     /\ pc \in {"idle", "done"}
     /\ Falsy(req'.toolName)) =>
        /\ pc' = "done"
        /\ res'.sent /\ ~res'.success
        /\ res'.status = 400
        /\ KindOf(res'.status) = "InvalidArgument"
        /\ log' = <<"respond">>
        /\ calls' = <<>>
        /\ UNCHANGED <<authClient, googleDocs, googleDrive, authLog, files>>

C26_MissingToolNameRejected == [][C26_Step]_vars

\* a call without toolName was answered
C26_Witness ==
    /\ RestDone
    /\ Falsy(req.toolName)
    /\ res.sent
    /\ res.status = 400

\* C27: a server accepts requests only after the credential initialization
\* has succeeded: when the initial initializeGoogleClient fails the process
\* exits without listening, and no request is handled while the cached
\* clients are unset.
C27_ListensOnlyAfterInit ==
    /\ phase = "listening" =>
          authLog.ok /\ authClient.set /\ googleDocs.set /\ googleDrive.set
    /\ (authLog.called /\ ~authLog.ok) => phase = "exited"
    /\ phase # "listening" =>
          pc = "idle" /\ log = <<>> /\ calls = <<>> /\ ~res.sent /\ ret = NoRet
    /\ pc # "idle" => googleDocs.set /\ googleDrive.set

\* the initial initialization failed and the process exited
C27_Witness ==
    /\ phase = "exited"
    /\ authLog.called
    /\ ~authLog.ok
    /\ ~googleDocs.set

\* C28: searchGoogleDocs called through the generic endpoint with the
\* documented arguments {"query": q} issues one upstream file search whose
\* search term is q.
C28_DocumentedSearchArgument ==
    (/\ RestDone
     /\ req.toolName = "searchGoogleDocs"
     /\ req.args.query # Undefined
     /\ req.args.searchQuery = Undefined) =>
        /\ Len(calls) = 1
        /\ calls[1].api = "drive.files.list"
        /\ calls[1].arg = req.args.query

\* C29: as long as the environment and the two files do not change during
\* the call, authorize() never reaches the interactive prompt and never
\* writes token.json: when no saved client loads, loadClientSecrets fails as
\* well and the call ends with an error.
C29_StaticFilesNeverPrompt ==
    (authLog.called /\ authLog.filesStatic) =>
        /\ ~authLog.prompted
        /\ ~authLog.wrote
        /\ files.token # "saved"
        /\ authLog.ok => authLog.source \in {"env", "file"}
        /\ ~authLog.ok => authLog.err # ""

\* under the file-based source no saved client loaded, the authentication
\* flow was entered with the files unchanged, and loadClientSecrets failed
C29_Witness ==
    /\ authLog.called
    /\ authLog.filesStatic
    /\ ~Managed
    /\ ~authLog.ok
    /\ authLog.err \in
         {"Could not load credentials from environment or files.",
          "Could not find client secrets in credentials."}

\* no top-level block of the snapshot is a table
NoTopLevelTable(d) == \A i \in DOMAIN d.content : d.content[i].kind # "table"

\* what a result holds after its header of n pieces
AfterHeader(out, n) == SubSeq(out, n + 1, Len(out))

====
